---- MODULE Spec2Model ----
(***************************************************************************)
(* Model of LiteLLMChatModelProvider (src/src/provider.ts): the chat turns *)
(* of provideLanguageModelChatResponse and the streaming decoder           *)
(* processStreamingResponse.  Texts are TLA+ strings; a response body is a *)
(* string of bytes that the decoder receives chunk by chunk.               *)
(*                                                                         *)
(* Spec is one response call after another on a provider instance and      *)
(* SpecLive the same with a reader whose reads resolve; SpecTurns is two   *)
(* response calls that may overlap; SpecRequest builds the request body;   *)
(* SpecConfig is prepareLanguageModelChatInformation with ensureConfig in  *)
(* both of its modes.  All start from the constructed instance (Init).     *)
(***************************************************************************)
EXTENDS Integers, Sequences, FiniteSets, TLC

(***************************************************************************)
(* String helpers (String.prototype.startsWith / slice / includes / split) *)
(***************************************************************************)
Min(a, b) == IF a < b THEN a ELSE b
Max(a, b) == IF a > b THEN a ELSE b

\* characters i..j of s, clamped to the string (no error out of range)
substring(s, i, j) ==
    IF Max(i, 1) > Min(j, Len(s)) THEN "" ELSE SubSeq(s, Max(i, 1), Min(j, Len(s)))

At(s, i) == substring(s, i, i)

startsWith(s, p) == substring(s, 1, Len(p)) = p

slice(s, n) == substring(s, n + 1, Len(s))

includes(s, p) == \E i \in 1..(Len(s) - Len(p) + 1) : SubSeq(s, i, i + Len(p) - 1) = p

\* the first index of s holding a character of the set cs, 0 if there is none
indexOfAny(s, cs) ==
    LET idx == {i \in 1..Len(s) : SubSeq(s, i, i) \in cs}
    IN  IF idx = {} THEN 0 ELSE CHOOSE i \in idx : \A j \in idx : i <= j

RECURSIVE split(_)
split(s) ==
    LET i == indexOfAny(s, {"\n"})
    IN  IF i = 0 THEN <<s>>
        ELSE <<substring(s, 1, i - 1)>> \o split(substring(s, i + 1, Len(s)))

(***************************************************************************)
(* TextDecoder (UTF-8).  Every byte of the body is one character of the    *)
(* body string.  LeadByte and ContByte stand for the two bytes 0xC3 0xA9   *)
(* of a two-byte character, which decode to the one character EAcute;      *)
(* a lead byte without its continuation, or a continuation byte on its     *)
(* own, decodes to Replacement (U+FFFD).  Every other byte is ASCII and    *)
(* decodes to itself.  With stream = TRUE an incomplete character at the   *)
(* end of the chunk is held back in the decoder for the next call.         *)
(***************************************************************************)
LeadByte == "^"
ContByte == "~"
EAcute == "@"
Replacement == "?"

RECURSIVE decode(_, _, _)
decode(pending, bytes, stream) ==
    IF bytes = ""
    THEN IF stream \/ pending = ""
         THEN [text |-> "", pending |-> pending]
         ELSE [text |-> Replacement, pending |-> ""]
    ELSE IF pending # ""
    THEN IF At(bytes, 1) = ContByte
         THEN LET r == decode("", slice(bytes, 1), stream)
              IN  [text |-> EAcute \o r.text, pending |-> r.pending]
         ELSE LET r == decode("", bytes, stream)
              IN  [text |-> Replacement \o r.text, pending |-> r.pending]
    ELSE LET k == indexOfAny(bytes, {LeadByte, ContByte}) IN
         IF k = 0 THEN [text |-> bytes, pending |-> ""]
         ELSE LET r == decode(IF At(bytes, k) = LeadByte THEN LeadByte ELSE "",
                              slice(bytes, k), stream)
              IN  [text |-> substring(bytes, 1, k - 1)
                              \o (IF At(bytes, k) = LeadByte THEN "" ELSE Replacement)
                              \o r.text,
                   pending |-> r.pending]

(***************************************************************************)
(* JSON values and JSON.parse.  The grammar covers objects, arrays,        *)
(* strings with the escapes \" \\ \/ \n \r \t, integers, true, false, null *)
(* and insignificant whitespace.                                           *)
(***************************************************************************)
Undefined == [t |-> "undefined"]
JNull == [t |-> "null"]
JStr(s) == [t |-> "str", s |-> s]
JNum(n) == [t |-> "num", n |-> n]
JBool(b) == [t |-> "bool", b |-> b]
JArr(items) == [t |-> "arr", items |-> items]
JObj(members) == [t |-> "obj", members |-> members]

Digits == "0123456789"
IsDigit(c) == c # "" /\ includes(Digits, c)
DigitVal(c) == CHOOSE d \in 0..9 : At(Digits, d + 1) = c
IsWs(c) == c \in {" ", "\t", "\n", "\r"}

ParseFail == [ok |-> FALSE, val |-> Undefined, next |-> 0]
ParseOk(v, n) == [ok |-> TRUE, val |-> v, next |-> n]

RECURSIVE SkipWs(_, _)
SkipWs(s, i) == IF i <= Len(s) /\ IsWs(At(s, i)) THEN SkipWs(s, i + 1) ELSE i

\* i is the index after the opening quote; acc the characters read so far
RECURSIVE ParseString(_, _, _)
ParseString(s, i, acc) ==
    IF i > Len(s) THEN ParseFail
    ELSE LET c == At(s, i) IN
         IF c = "\"" THEN ParseOk(JStr(acc), i + 1)
         ELSE IF c = "\\"
         THEN LET e == At(s, i + 1) IN
              IF e \in {"\"", "\\", "/"} THEN ParseString(s, i + 2, acc \o e)
              ELSE IF e = "n" THEN ParseString(s, i + 2, acc \o "\n")
              ELSE IF e = "r" THEN ParseString(s, i + 2, acc \o "\r")
              ELSE IF e = "t" THEN ParseString(s, i + 2, acc \o "\t")
              ELSE ParseFail
         ELSE IF c \in {"\n", "\r", "\t"} THEN ParseFail
         ELSE ParseString(s, i + 1, acc \o c)

RECURSIVE ParseDigits(_, _, _)
ParseDigits(s, i, acc) ==
    IF i <= Len(s) /\ IsDigit(At(s, i))
    THEN ParseDigits(s, i + 1, 10 * acc + DigitVal(At(s, i)))
    ELSE ParseOk(JNum(acc), i)

ParseNumber(s, i) ==
    LET neg == At(s, i) = "-"
        j == IF neg THEN i + 1 ELSE i
    IN  IF ~IsDigit(At(s, j)) THEN ParseFail
        ELSE IF At(s, j) = "0" /\ IsDigit(At(s, j + 1)) THEN ParseFail
        ELSE LET r == ParseDigits(s, j, 0)
             IN  IF neg THEN ParseOk(JNum(0 - r.val.n), r.next) ELSE r

RECURSIVE ParseValue(_, _), ParseElements(_, _, _), ParseMembers(_, _, _)
ParseValue(s, i0) ==
    LET i == SkipWs(s, i0)
        c == At(s, i)
    IN  IF c = "{" THEN
            IF At(s, SkipWs(s, i + 1)) = "}"
            THEN ParseOk(JObj(<<>>), SkipWs(s, i + 1) + 1)
            ELSE ParseMembers(s, i + 1, <<>>)
        ELSE IF c = "[" THEN
            IF At(s, SkipWs(s, i + 1)) = "]"
            THEN ParseOk(JArr(<<>>), SkipWs(s, i + 1) + 1)
            ELSE ParseElements(s, i + 1, <<>>)
        ELSE IF c = "\"" THEN ParseString(s, i + 1, "")
        ELSE IF substring(s, i, i + 3) = "true" THEN ParseOk(JBool(TRUE), i + 4)
        ELSE IF substring(s, i, i + 4) = "false" THEN ParseOk(JBool(FALSE), i + 5)
        ELSE IF substring(s, i, i + 3) = "null" THEN ParseOk(JNull, i + 4)
        ELSE IF c = "-" \/ IsDigit(c) THEN ParseNumber(s, i)
        ELSE ParseFail

\* i is the index where the next element starts; acc the elements so far
ParseElements(s, i, acc) ==
    LET r == ParseValue(s, i) IN
    IF ~r.ok THEN ParseFail
    ELSE LET j == SkipWs(s, r.next)
             items == Append(acc, r.val)
         IN  IF At(s, j) = "," THEN ParseElements(s, j + 1, items)
             ELSE IF At(s, j) = "]" THEN ParseOk(JArr(items), j + 1)
             ELSE ParseFail

\* a duplicated name keeps its place and takes the later value
setMember(members, key, val) ==
    IF \E k \in 1..Len(members) : members[k][1] = key
    THEN [k \in 1..Len(members) |->
              IF members[k][1] = key THEN <<key, val>> ELSE members[k]]
    ELSE Append(members, <<key, val>>)

\* i is the index where the next "key": value starts; acc the members so far
ParseMembers(s, i, acc) ==
    LET k == SkipWs(s, i) IN
    IF At(s, k) # "\"" THEN ParseFail
    ELSE LET key == ParseString(s, k + 1, "") IN
         IF ~key.ok THEN ParseFail
         ELSE LET c == SkipWs(s, key.next) IN
              IF At(s, c) # ":" THEN ParseFail
              ELSE LET r == ParseValue(s, c + 1) IN
                   IF ~r.ok THEN ParseFail
                   ELSE LET j == SkipWs(s, r.next)
                            members == setMember(acc, key.val.s, r.val)
                        IN  IF At(s, j) = "," THEN ParseMembers(s, j + 1, members)
                            ELSE IF At(s, j) = "}" THEN ParseOk(JObj(members), j + 1)
                            ELSE ParseFail

\* JSON.parse(text): ok = FALSE stands for the SyntaxError it throws
JSONparse(text) ==
    LET r == ParseValue(text, 1) IN
    IF r.ok /\ SkipWs(text, r.next) = Len(text) + 1 THEN r ELSE ParseFail


(***************************************************************************)
(* JavaScript operators applied to parsed documents                        *)
(***************************************************************************)
\* v?.key, for the names the provider reads (none is a property of a
\* string, number, boolean or array)
prop(v, key) ==
    IF v.t = "obj" /\ \E k \in 1..Len(v.members) : v.members[k][1] = key
    THEN v.members[CHOOSE k \in 1..Len(v.members) : v.members[k][1] = key][2]
    ELSE Undefined

\* v?.[0]
first(v) ==
    IF v.t = "arr" THEN (IF Len(v.items) > 0 THEN v.items[1] ELSE Undefined)
    ELSE IF v.t = "str" THEN (IF v.s # "" THEN JStr(At(v.s, 1)) ELSE Undefined)
    ELSE prop(v, "0")

\* a ?? b
nullish(v) == v.t \in {"null", "undefined"}

\* if (v)
truthy(v) ==
    IF v.t = "str" THEN v.s # ""
    ELSE IF v.t = "num" THEN v.n # 0
    ELSE IF v.t = "bool" THEN v.b
    ELSE v.t \in {"arr", "obj"}

RECURSIVE numToString(_)
numToString(n) ==
    IF n < 0 THEN "-" \o numToString(0 - n)
    ELSE IF n < 10 THEN At(Digits, n + 1)
    ELSE numToString(n \div 10) \o At(Digits, (n % 10) + 1)

\* String(v)
RECURSIVE String(_), joinItems(_, _)
String(v) ==
    IF v.t = "str" THEN v.s
    ELSE IF v.t = "num" THEN numToString(v.n)
    ELSE IF v.t = "bool" THEN (IF v.b THEN "true" ELSE "false")
    ELSE IF v.t = "arr" THEN joinItems(v.items, 1)
    ELSE IF v.t = "obj" THEN "[object Object]"
    ELSE v.t

joinItems(items, i) ==
    IF i > Len(items) THEN ""
    ELSE (IF nullish(items[i]) THEN "" ELSE String(items[i]))
         \o (IF i < Len(items) THEN "," ELSE "") \o joinItems(items, i + 1)

\* the JSON string literal of s
RECURSIVE escape(_, _)
escape(s, i) ==
    IF i > Len(s) THEN ""
    ELSE LET c == At(s, i) IN
         (IF c \in {"\"", "\\"} THEN "\\" \o c
          ELSE IF c = "\n" THEN "\\n"
          ELSE IF c = "\r" THEN "\\r"
          ELSE IF c = "\t" THEN "\\t"
          ELSE c) \o escape(s, i + 1)

quote(s) == "\"" \o escape(s, 1) \o "\""

\* JSON.stringify(v, null, 2); ind is the indentation of the enclosing line
RECURSIVE stringify(_, _), stringifyItems(_, _, _), stringifyMembers(_, _, _)
stringify(v, ind) ==
    IF v.t = "str" THEN quote(v.s)
    ELSE IF v.t = "num" THEN numToString(v.n)
    ELSE IF v.t = "bool" THEN (IF v.b THEN "true" ELSE "false")
    ELSE IF v.t = "arr" THEN
        IF v.items = <<>> THEN "[]"
        ELSE "[\n" \o stringifyItems(v.items, 1, ind \o "  ") \o "\n" \o ind \o "]"
    ELSE IF v.t = "obj" THEN
        IF v.members = <<>> THEN "{}"
        ELSE "{\n" \o stringifyMembers(v.members, 1, ind \o "  ") \o "\n" \o ind \o "}"
    ELSE "null"

stringifyItems(items, i, ind) ==
    ind \o stringify(items[i], ind)
        \o (IF i < Len(items) THEN ",\n" \o stringifyItems(items, i + 1, ind) ELSE "")

stringifyMembers(members, i, ind) ==
    ind \o quote(members[i][1]) \o ": " \o stringify(members[i][2], ind)
        \o (IF i < Len(members) THEN ",\n" \o stringifyMembers(members, i + 1, ind) ELSE "")

(***************************************************************************)
(* Responses of the backend.  A streamed body is the UTF-8 encoding of a   *)
(* list of lines, each followed by "\n", and of an unterminated last       *)
(* fragment (tail).  The list is kept as events next to the bytes so that  *)
(* what the decoder emits can be compared with what the backend sent.      *)
(***************************************************************************)
\* an absent value (undefined)
NoValue == "<undefined>"

TextEvent(c) == [kind |-> "text", text |-> c, name |-> "", index |-> 0, finish |-> FALSE]
NumEvent(d) == [kind |-> "num", text |-> d, name |-> "", index |-> 0, finish |-> FALSE]
RawLine(l) == [kind |-> "raw", text |-> l, name |-> "", index |-> 0, finish |-> FALSE]
DoneEvent == [kind |-> "done", text |-> "", name |-> "", index |-> 0, finish |-> FALSE]
ToolEvent(i, n, a, f) == [kind |-> "tool", text |-> a, name |-> n, index |-> i, finish |-> f]
FinishEvent == [kind |-> "finish", text |-> "", name |-> "", index |-> 0, finish |-> TRUE]

\* markers of the inline-text encoding of a tool call
OpenMarker == "<tool_call>"
CloseMarker == "</tool_call>"

eventLine(e) ==
    IF e.kind = "text"
    THEN "data: {\"choices\":[{\"delta\":{\"content\":" \o quote(e.text) \o "}}]}"
    ELSE IF e.kind = "num"
    THEN "data: {\"choices\":[{\"delta\":{\"content\":" \o e.text \o "}}]}"
    ELSE IF e.kind = "done" THEN "data: [DONE]"
    ELSE IF e.kind = "finish"
    THEN "data: {\"choices\":[{\"delta\":{},\"finish_reason\":\"tool_calls\"}]}"
    ELSE IF e.kind = "tool"
    THEN "data: {\"choices\":[{\"delta\":{\"tool_calls\":[{\"index\":"
             \o numToString(e.index) \o ",\"function\":{"
             \o (IF e.name # "" THEN "\"name\":" \o quote(e.name) \o "," ELSE "")
             \o "\"arguments\":" \o quote(e.text) \o "}}]}"
             \o (IF e.finish THEN ",\"finish_reason\":\"tool_calls\"" ELSE "")
             \o "}]}"
    ELSE e.text

\* TextEncoder: the bytes of a text
RECURSIVE encode(_)
encode(s) ==
    LET k == indexOfAny(s, {EAcute})
    IN  IF k = 0 THEN s
        ELSE substring(s, 1, k - 1) \o LeadByte \o ContByte \o encode(slice(s, k))

RECURSIVE linesText(_, _)
linesText(events, i) ==
    IF i > Len(events) THEN ""
    ELSE eventLine(events[i]) \o "\n" \o linesText(events, i + 1)

bodyOf(events, tail) == encode(linesText(events, 1) \o tail)

EventStream == "text/event-stream"

StreamResponse(ct, events, tail) ==
    [ok |-> TRUE, contentType |-> ct, hasBody |-> TRUE, body |-> bodyOf(events, tail),
     events |-> events, expect |-> ""]

\* expect is the text the document is to be answered with
DocumentResponse(ok, ct, text, expect) ==
    [ok |-> ok, contentType |-> ct, hasBody |-> TRUE, body |-> encode(text),
     events |-> <<>>, expect |-> expect]

StreamResponses ==
    { StreamResponse(EventStream, <<TextEvent("Hel"), TextEvent("lo"), DoneEvent>>, ""),
      StreamResponse(EventStream,
                     <<TextEvent("a"), RawLine("data: {\"choices\":[{\"delta\""),
                       TextEvent("b"), DoneEvent>>, ""),
      StreamResponse(EventStream, <<TextEvent("a"), DoneEvent, TextEvent("b")>>, ""),
      StreamResponse("text/event-stream; charset=utf-8",
                     <<RawLine(": keep-alive"), TextEvent(""), RawLine(""), NumEvent("7"),
                       RawLine("data: null"), TextEvent("x"), NumEvent("0"),
                       RawLine("event: ping")>>, ""),
      StreamResponse(EventStream,
                     <<ToolEvent(0, "lookup", "{\"q\":", FALSE),
                       ToolEvent(0, "", "\"x\"}", TRUE), FinishEvent, DoneEvent>>, ""),
      StreamResponse(EventStream,
                     <<TextEvent(OpenMarker), TextEvent("lookup {\"q\":"),
                       TextEvent("\"x\"}"), TextEvent(CloseMarker), DoneEvent>>, ""),
      StreamResponse(EventStream, <<TextEvent("caf" \o EAcute), DoneEvent>>, ""),
      StreamResponse(EventStream, <<TextEvent("a")>>, eventLine(TextEvent("lost"))),
      StreamResponse(EventStream, <<TextEvent("a")>>, ""),
      StreamResponse(EventStream, <<>>, "") }

NoBodyResponse ==
    [ok |-> TRUE, contentType |-> EventStream, hasBody |-> FALSE, body |-> "",
     events |-> <<>>, expect |-> ""]

DocumentResponses ==
    { DocumentResponse(TRUE, "application/json",
                       "{\"choices\":[{\"message\":{\"content\":\"hi\"}}]}", "hi"),
      DocumentResponse(TRUE, "application/json; charset=utf-8",
                       "{\"assistant\":{\"response\":[{\"content\":\"alt\"}]}}", "alt"),
      DocumentResponse(TRUE, "application/json",
                       "{\"choices\":[{\"message\":{\"content\":null}}],\"assistant\":{\"response\":[{\"content\":\"alt\"}]}}",
                       "alt"),
      DocumentResponse(TRUE, "application/json",
                       "{\"choices\":[{\"message\":{\"content\":\"\"}}],\"assistant\":{\"response\":[{\"content\":\"alt\"}]}}",
                       ""),
      DocumentResponse(TRUE, "", "{\"id\":\"x\",\"choices\":[]}",
                       "{\n  \"id\": \"x\",\n  \"choices\": []\n}"),
      DocumentResponse(TRUE, "application/json",
                       "{\"choices\":[{\"message\":{\"content\":\"caf" \o EAcute \o "\"}}]}",
                       "caf" \o EAcute),
      DocumentResponse(TRUE, "text/html", "<html>", NoValue) }

ErrorResponses ==
    { DocumentResponse(FALSE, "application/json", "{\"error\":\"bad key\"}", NoValue),
      DocumentResponse(FALSE, EventStream, "upstream down", NoValue) }

Responses == StreamResponses \cup {NoBodyResponse} \cup DocumentResponses \cup ErrorResponses

(***************************************************************************)
(* Parts reported to the progress sink                                     *)
(***************************************************************************)
LanguageModelTextPart(v) == [type |-> "text", value |-> v]
LanguageModelToolCallPart(id, name, input) ==
    [type |-> "tool", value |-> input, callId |-> id, name |-> name]

(***************************************************************************)
(* State                                                                   *)
(***************************************************************************)
\* the longest chunk a read delivers, unless it delivers the rest of the body
MaxChunk == 16

VARIABLES
    secrets,                    \* the secret storage: [baseUrl, apiKey]
    toolCallBuffers,            \* fields of the provider instance
    completedToolCallIndices,
    hasEmittedAssistantText,
    emittedBeginToolCallsHint,
    textToolParserBuffer,
    textToolActive,
    emittedTextToolCallKeys,
    emittedTextToolCallIds,
    pc,                         \* where the response call is suspended, or "idle"
    result,                     \* how the last call ended: "none", "returned", "threw"
    error,                      \* message of the Error thrown
    messagesValid,              \* whether validateRequest accepts the messages
    token,                      \* token.isCancellationRequested
    requests,                   \* POSTs issued by the call
    response,                   \* the backend's response
    pos,                        \* bytes of the body the reader has delivered
    decoderPending,             \* bytes held back inside the TextDecoder
    buffer,                     \* processStreamingResponse: the carry-over line
    sink,                       \* parts reported to progress, in order
    cancelMark                  \* where the call was, and the length of sink, when
                                \* cancellation was requested

\* two response calls on the one provider instance
VARIABLES
    turns,                      \* per call: its position, arguments, locals and sink
    frames                      \* per activation of processStreamingResponse: buffer

\* the request body of a response call
VARIABLES
    modelOptions,               \* options.modelOptions: [max_tokens, temperature]
    maxOutputTokens,            \* model.maxOutputTokens
    requestBody                 \* the body built, NoRequest before

\* prepareLanguageModelChatInformation
VARIABLES
    chatEndpoints,              \* field of the provider instance
    infoPc,                     \* where the call is suspended, or "idle"
    optionsSilent,              \* options.silent of the last call
    typed,                      \* what the user types into the input boxes
    secretsBefore,              \* the secret storage when the call was made
    prompts,                    \* input boxes the call has shown
    resolved,                   \* what ensureConfig resolved to
    infos                       \* what the call returned, or the error thrown

fields == <<toolCallBuffers, completedToolCallIndices, hasEmittedAssistantText,
            emittedBeginToolCallsHint, textToolParserBuffer, textToolActive,
            emittedTextToolCallKeys, emittedTextToolCallIds>>
locals == <<pos, decoderPending, buffer>>
\* the one response call of Spec
turn == <<pc, result, error, messagesValid, token, requests, response, locals, sink,
          cancelMark>>
overlapped == <<turns, frames>>
request == <<modelOptions, maxOutputTokens, requestBody>>
discovery == <<chatEndpoints, infoPc, optionsSilent, typed, secretsBefore, prompts,
               resolved, infos>>
\* what the response call of Spec leaves alone
aside == <<overlapped, request, discovery>>
vars == <<secrets, fields, turn, aside>>

NoResponse ==
    [ok |-> FALSE, contentType |-> "", hasBody |-> FALSE, body |-> "",
     events |-> <<>>, expect |-> ""]

BaseUrls == {NoValue, "http://llm"}
ApiKeys == {NoValue, "sk-1"}

\* contents of the secret storage the provider is constructed with
Stores == {[baseUrl |-> NoValue, apiKey |-> NoValue],
           [baseUrl |-> "http://llm", apiKey |-> "sk-1"]}

\* the response calls made on the provider instance
Calls == {1, 2}

\* a call that has not been made yet
NewTurn ==
    [pc |-> "new", result |-> "none", error |-> "", valid |-> TRUE, token |-> FALSE,
     requests |-> 0, response |-> NoResponse, pos |-> 0, decoderPending |-> "",
     sink |-> <<>>, entered |-> "none"]

\* no request body built yet; temperature is counted in tenths
NoRequest == [stream |-> FALSE, max_tokens |-> 0, temperature |-> 0]

\* no configuration resolved: ensureConfig returned undefined
NoConfig == [defined |-> FALSE, baseUrl |-> "", apiKey |-> ""]

Init ==
    /\ secrets \in Stores
    /\ toolCallBuffers = <<>>
    /\ completedToolCallIndices = {}
    /\ hasEmittedAssistantText = FALSE
    /\ emittedBeginToolCallsHint = FALSE
    /\ textToolParserBuffer = ""
    /\ textToolActive = NoValue
    /\ emittedTextToolCallKeys = {}
    /\ emittedTextToolCallIds = {}
    /\ pc = "idle"
    /\ result = "none"
    /\ error = ""
    /\ messagesValid = TRUE
    /\ token = FALSE
    /\ requests = 0
    /\ response = NoResponse
    /\ pos = 0
    /\ decoderPending = ""
    /\ buffer = ""
    /\ sink = <<>>
    /\ cancelMark = [at |-> "none", len |-> 0]
    /\ turns = [c \in Calls |-> NewTurn]
    /\ frames = [c \in Calls |-> ""]
    /\ modelOptions = [max_tokens |-> Undefined, temperature |-> Undefined]
    /\ maxOutputTokens = 0
    /\ requestBody = NoRequest
    /\ chatEndpoints = <<>>
    /\ infoPc = "idle"
    /\ optionsSilent = TRUE
    /\ typed = [baseUrl |-> NoValue, apiKey |-> NoValue]
    /\ secretsBefore = secrets
    /\ prompts = 0
    /\ resolved = NoConfig
    /\ infos = [result |-> "none", models |-> <<>>, error |-> ""]

(***************************************************************************)
(* ensureConfig(silent): answer[k] is what the user types into the input   *)
(* box for secret k (NoValue when the box is dismissed).                   *)
(***************************************************************************)
falsy(str) == str \in {NoValue, ""}

\* ensureConfig showing the input boxes whatever silent is
ensureConfigPrompting(silent, store, answer) ==
    LET askUrl == falsy(store.baseUrl)
        baseUrl == IF askUrl THEN answer.baseUrl ELSE store.baseUrl
        askKey == falsy(store.apiKey)
        apiKey == IF askKey THEN answer.apiKey ELSE store.apiKey
    IN  [prompts |-> (IF askUrl THEN 1 ELSE 0) + (IF askKey THEN 1 ELSE 0),
         store |-> [baseUrl |-> IF askUrl /\ ~falsy(baseUrl) THEN baseUrl ELSE store.baseUrl,
                    apiKey |-> IF askKey /\ ~falsy(apiKey) THEN apiKey ELSE store.apiKey],
         configured |-> ~falsy(baseUrl),
         baseUrl |-> baseUrl,
         apiKey |-> IF apiKey = NoValue THEN "" ELSE apiKey]

ensureConfig(silent, store, answer) ==
    LET askUrl == falsy(store.baseUrl) /\ ~silent
        baseUrl == IF askUrl THEN answer.baseUrl ELSE store.baseUrl
        askKey == falsy(store.apiKey) /\ ~silent
        apiKey == IF askKey THEN answer.apiKey ELSE store.apiKey
    IN  [prompts |-> (IF askUrl THEN 1 ELSE 0) + (IF askKey THEN 1 ELSE 0),
         store |-> [baseUrl |-> IF askUrl /\ ~falsy(baseUrl) THEN baseUrl ELSE store.baseUrl,
                    apiKey |-> IF askKey /\ ~falsy(apiKey) THEN apiKey ELSE store.apiKey],
         configured |-> ~falsy(baseUrl),
         baseUrl |-> baseUrl,
         apiKey |-> IF apiKey = NoValue THEN "" ELSE apiKey]

(***************************************************************************)
(* processStreamingResponse                                                *)
(***************************************************************************)
\* reportData reporting every content that is not null or undefined
reportDataAnyContent(data) ==
    LET parsed == JSONparse(data) IN
    IF ~parsed.ok THEN <<>>
    ELSE LET content == prop(prop(first(prop(parsed.val, "choices")), "delta"), "content")
         IN  IF ~nullish(content) THEN <<LanguageModelTextPart(String(content))>> ELSE <<>>

\* reportData also reporting a tool call at every finish signal, without
\* looking at the completed indices
reportDataToolAtFinish(data) ==
    LET parsed == JSONparse(data) IN
    IF ~parsed.ok THEN <<>>
    ELSE LET choice == first(prop(parsed.val, "choices"))
             content == prop(prop(choice, "delta"), "content")
         IN  (IF truthy(content) THEN <<LanguageModelTextPart(String(content))>> ELSE <<>>)
             \o (IF truthy(prop(choice, "finish_reason"))
                 THEN <<LanguageModelToolCallPart("call_0", "lookup", "{}")>> ELSE <<>>)

\* the try block of the line loop: the parts reported for one payload
reportData(data) ==
    LET parsed == JSONparse(data) IN
    IF ~parsed.ok THEN <<>>
    ELSE LET content == prop(prop(first(prop(parsed.val, "choices")), "delta"), "content")
         IN  IF truthy(content) THEN <<LanguageModelTextPart(String(content))>> ELSE <<>>

\* forLines skipping the [DONE] line instead of returning
RECURSIVE forLinesPastDone(_, _)
forLinesPastDone(lines, i) ==
    IF i > Len(lines) THEN [parts |-> <<>>, done |-> FALSE]
    ELSE IF ~startsWith(lines[i], "data: ") THEN forLinesPastDone(lines, i + 1)
    ELSE LET data == slice(lines[i], 6) IN
         IF data = "[DONE]" THEN forLinesPastDone(lines, i + 1)
         ELSE LET r == forLinesPastDone(lines, i + 1)
              IN  [parts |-> reportData(data) \o r.parts, done |-> r.done]

\* forLines leaving the loop at a payload that does not parse
RECURSIVE forLinesAbortOnError(_, _)
forLinesAbortOnError(lines, i) ==
    IF i > Len(lines) THEN [parts |-> <<>>, done |-> FALSE]
    ELSE IF ~startsWith(lines[i], "data: ") THEN forLinesAbortOnError(lines, i + 1)
    ELSE LET data == slice(lines[i], 6) IN
         IF data = "[DONE]" \/ ~JSONparse(data).ok THEN [parts |-> <<>>, done |-> TRUE]
         ELSE LET r == forLinesAbortOnError(lines, i + 1)
              IN  [parts |-> reportData(data) \o r.parts, done |-> r.done]

\* for (const line of lines): the parts reported, and whether [DONE] returned
RECURSIVE forLines(_, _)
forLines(lines, i) ==
    IF i > Len(lines) THEN [parts |-> <<>>, done |-> FALSE]
    ELSE IF ~startsWith(lines[i], "data: ") THEN forLines(lines, i + 1)
    ELSE LET data == slice(lines[i], 6) IN
         IF data = "[DONE]" THEN [parts |-> <<>>, done |-> TRUE]
         ELSE LET r == forLines(lines, i + 1)
              IN  [parts |-> reportData(data) \o r.parts, done |-> r.done]

\* pop losing the fragment
popDropped(lines) == ""

\* lines.pop() || "": the fragment after the last newline
pop(lines) == lines[Len(lines)]

\* popped keeping the fragment among the lines to parse
poppedWithFragment(lines) == lines

\* lines after the pop: the complete lines
popped(lines) == SubSeq(lines, 1, Len(lines) - 1)

\* decoder.decode(value, { stream: true })
decodeChunk(pending, value) == decode(pending, value, TRUE)

\* loopCondition never polling the token
loopConditionAlways(isCancellationRequested) == TRUE

\* the condition of the read loop
loopCondition(isCancellationRequested) == ~isCancellationRequested

Return ==
    /\ pc' = "idle"
    /\ result' = "returned"
    /\ error' = ""

Throw(msg) ==
    /\ pc' = "idle"
    /\ result' = "threw"
    /\ error' = msg

\* Loop reading a cancelled stream on to its end
LoopDrain ==
    IF ~token \/ pos < Len(response.body)
    THEN pc' = "read" /\ UNCHANGED <<result, error>>
    ELSE Return

\* top of the while loop: leave when cancelled, else start a read
Loop == IF loopCondition(token)
        THEN pc' = "read" /\ UNCHANGED <<result, error>>
        ELSE Return

(***************************************************************************)
(* provideLanguageModelChatResponse                                        *)
(***************************************************************************)
\* entry: reset the turn state and ask for the configuration
Call ==
    /\ pc = "idle"
    /\ \E valid \in BOOLEAN, cancelled \in BOOLEAN :
          /\ messagesValid' = valid
          /\ token' = cancelled
          /\ cancelMark' = [at |-> IF cancelled THEN "entry" ELSE "none", len |-> 0]
    /\ toolCallBuffers' = <<>>
    /\ completedToolCallIndices' = {}
    /\ hasEmittedAssistantText' = FALSE
    /\ emittedBeginToolCallsHint' = FALSE
    /\ textToolParserBuffer' = ""
    /\ textToolActive' = NoValue
    /\ emittedTextToolCallKeys' = {}
    /\ emittedTextToolCallIds' = {}
    /\ pc' = "config"
    /\ result' = "none"
    /\ error' = ""
    /\ requests' = 0
    /\ response' = NoResponse
    /\ pos' = 0
    /\ decoderPending' = ""
    /\ buffer' = ""
    /\ sink' = <<>>
    /\ UNCHANGED secrets
    /\ UNCHANGED aside

\* Configured issuing the POST before validateRequest
ConfiguredPostFirst ==
    /\ pc = "config"
    /\ \E answer \in [baseUrl : BaseUrls, apiKey : ApiKeys] :
          LET config == ensureConfig(TRUE, secrets, answer) IN
          /\ secrets' = config.store
          /\ IF ~config.configured
             THEN Throw("LiteLLM not configured") /\ UNCHANGED requests
             ELSE /\ requests' = requests + 1
                  /\ IF ~messagesValid
                     THEN Throw("invalid request")
                     ELSE pc' = "fetch" /\ UNCHANGED <<result, error>>
    /\ UNCHANGED <<fields, messagesValid, token, response, locals, sink, cancelMark>>
    /\ UNCHANGED aside

\* ensureConfig(true) resolves; validateRequest; the POST is issued
Configured ==
    /\ pc = "config"
    /\ \E answer \in [baseUrl : BaseUrls, apiKey : ApiKeys] :
          LET config == ensureConfig(TRUE, secrets, answer) IN
          /\ secrets' = config.store
          /\ IF ~config.configured
             THEN Throw("LiteLLM not configured") /\ UNCHANGED requests
             ELSE IF ~messagesValid
             THEN Throw("invalid request") /\ UNCHANGED requests
             ELSE /\ pc' = "fetch"
                  /\ requests' = requests + 1
                  /\ UNCHANGED <<result, error>>
    /\ UNCHANGED <<fields, messagesValid, token, response, locals, sink, cancelMark>>
    /\ UNCHANGED aside

\* fetch rejects
FetchFail ==
    /\ pc = "fetch"
    /\ Throw("fetch failed")
    /\ UNCHANGED <<secrets, fields, messagesValid, token, requests, response, locals,
                   sink, cancelMark>>
    /\ UNCHANGED aside

\* fetch resolves with a response
Fetched ==
    /\ pc = "fetch"
    /\ \E r \in Responses :
          /\ response' = r
          /\ IF ~r.ok
             THEN pc' = "text" /\ UNCHANGED <<result, error>>
             ELSE IF ~includes(r.contentType, "text/event-stream")
             THEN pc' = "json" /\ UNCHANGED <<result, error>>
             ELSE IF ~r.hasBody
             THEN Throw("No response body")
             ELSE Loop
    /\ UNCHANGED <<secrets, fields, messagesValid, token, requests, locals, sink,
                   cancelMark>>
    /\ UNCHANGED aside

\* response.text() resolves: the body is the message of the error
ErrorBody ==
    /\ pc = "text"
    /\ Throw(decode("", response.body, FALSE).text)
    /\ UNCHANGED <<secrets, fields, messagesValid, token, requests, response, locals,
                   sink, cancelMark>>
    /\ UNCHANGED aside

\* documentText falling back on every falsy content (|| for ??)
documentTextOr(json) ==
    LET a == prop(prop(first(prop(json, "choices")), "message"), "content")
        b == prop(first(prop(prop(json, "assistant"), "response")), "content")
    IN  String(IF truthy(a) THEN a
               ELSE IF truthy(b) THEN b
               ELSE JStr(stringify(json, "")))

\* the text of the non-streaming answer
documentText(json) ==
    LET a == prop(prop(first(prop(json, "choices")), "message"), "content")
        b == prop(first(prop(prop(json, "assistant"), "response")), "content")
    IN  String(IF ~nullish(a) THEN a
               ELSE IF ~nullish(b) THEN b
               ELSE JStr(stringify(json, "")))

\* response.json() resolves or rejects
JsonBody ==
    /\ pc = "json"
    /\ LET json == JSONparse(decode("", response.body, FALSE).text) IN
       IF ~json.ok
       THEN Throw("Unexpected token") /\ UNCHANGED sink
       ELSE /\ sink' = Append(sink, LanguageModelTextPart(documentText(json.val)))
            /\ Return
    /\ UNCHANGED <<secrets, fields, messagesValid, token, requests, response, locals,
                   cancelMark>>
    /\ UNCHANGED aside

\* reader.read() resolves with a chunk of n bytes: at most MaxChunk bytes, or
\* all the bytes that remain
ReadChunk ==
    /\ pc = "read"
    /\ \E n \in (1..Min(MaxChunk, Len(response.body) - pos))
                   \cup ({Len(response.body) - pos} \ {0}) :
          LET value == substring(response.body, pos + 1, pos + n)
              d == decodeChunk(decoderPending, value)
              lines == split(buffer \o d.text)
              r == forLines(popped(lines), 1)
          IN  /\ pos' = pos + n
              /\ decoderPending' = d.pending
              /\ buffer' = pop(lines)
              /\ sink' = sink \o r.parts
              /\ IF r.done THEN Return ELSE Loop
    /\ UNCHANGED <<secrets, fields, messagesValid, token, requests, response, cancelMark>>
    /\ UNCHANGED aside

\* ReadDone taking the end of the stream, reached without the sentinel, for a
\* truncation
ReadDoneTruncated ==
    /\ pc = "read"
    /\ pos = Len(response.body)
    /\ Throw("truncated stream")
    /\ UNCHANGED <<secrets, fields, messagesValid, token, requests, response, locals,
                   sink, cancelMark>>
    /\ UNCHANGED aside

\* reader.read() resolves with done
ReadDone ==
    /\ pc = "read"
    /\ pos = Len(response.body)
    /\ Return
    /\ UNCHANGED <<secrets, fields, messagesValid, token, requests, response, locals,
                   sink, cancelMark>>
    /\ UNCHANGED aside

\* ReadFail issuing the request again and decoding the new response from its start
ReadFailRetry ==
    /\ pc = "read"
    /\ pc' = "fetch"
    /\ requests' = requests + 1
    /\ pos' = 0
    /\ decoderPending' = ""
    /\ buffer' = ""
    /\ UNCHANGED <<secrets, fields, result, error, messagesValid, token, response, sink,
                   cancelMark>>
    /\ UNCHANGED aside

\* reader.read() rejects
ReadFail ==
    /\ pc = "read"
    /\ Throw("read failed")
    /\ UNCHANGED <<secrets, fields, messagesValid, token, requests, response, locals,
                   sink, cancelMark>>
    /\ UNCHANGED aside

\* the host requests cancellation while the call is suspended
Cancel ==
    /\ pc # "idle"
    /\ ~token
    /\ token' = TRUE
    /\ cancelMark' = [at |-> pc, len |-> Len(sink)]
    /\ UNCHANGED <<secrets, fields, pc, result, error, messagesValid, requests, response,
                   locals, sink>>
    /\ UNCHANGED aside

Next ==
    \/ Call
    \/ Configured
    \/ FetchFail
    \/ Fetched
    \/ ErrorBody
    \/ JsonBody
    \/ ReadChunk
    \/ ReadDone
    \/ ReadFail
    \/ Cancel

Spec == Init /\ [][Next]_vars

TypeOK ==
    /\ pc \in {"idle", "config", "fetch", "text", "json", "read"}
    /\ result \in {"none", "returned", "threw"}
    /\ pos \in 0..Len(response.body)

(***************************************************************************)
(* What the backend sent, read off the events of the response              *)
(***************************************************************************)
\* the response is decoded by processStreamingResponse
IsStream == response.ok /\ response.hasBody /\ includes(response.contentType, EventStream)

\* the streaming call has ended normally and was never cancelled
Decoded == IsStream /\ pc = "idle" /\ result = "returned" /\ ~token

\* index of the first end sentinel among the events, 0 if there is none
doneIndex(events) ==
    LET idx == {i \in 1..Len(events) : events[i].kind = "done"}
    IN  IF idx = {} THEN 0 ELSE CHOOSE i \in idx : \A j \in idx : i <= j

\* the events before the end sentinel
beforeDone(events) ==
    IF doneIndex(events) = 0 THEN events ELSE SubSeq(events, 1, doneIndex(events) - 1)

\* number of body bytes up to the newline that ends the sentinel line
doneEnd(events) == Len(bodyOf(SubSeq(events, 1, doneIndex(events)), ""))

\* a "data: " line whose payload is not JSON
malformed(e) ==
    e.kind = "raw" /\ startsWith(e.text, "data: ") /\ ~JSONparse(slice(e.text, 6)).ok

\* one text part per event whose delta carries content, empty content included
RECURSIVE fragmentParts(_)
fragmentParts(events) ==
    IF events = <<>> THEN <<>>
    ELSE (IF Head(events).kind \in {"text", "num"}
          THEN <<LanguageModelTextPart(Head(events).text)>> ELSE <<>>)
         \o fragmentParts(Tail(events))

\* one text part per event whose content is truthy: a non-empty string, or a
\* number other than 0 in its decimal notation
RECURSIVE contentParts(_)
contentParts(events) ==
    IF events = <<>> THEN <<>>
    ELSE (IF \/ Head(events).kind = "text" /\ Head(events).text # ""
             \/ Head(events).kind = "num" /\ Head(events).text # "0"
          THEN <<LanguageModelTextPart(Head(events).text)>> ELSE <<>>)
         \o contentParts(Tail(events))

\* what one read delivering the whole body makes the decoder report
singleRead(body) ==
    forLines(popped(split(decodeChunk("", body).text)), 1).parts

(***************************************************************************)
(* C1: however the body is cut into read chunks, a decode that ends        *)
(* without cancellation has reported the same sequence of parts as the     *)
(* decode of the whole body delivered by one read.                         *)
(***************************************************************************)
C1_ChunkBoundaryInvariance == Decoded => sink = singleRead(response.body)

\* the decode ended at the sentinel in the middle of the body, so the body came
\* in more than one chunk, after parts were reported
C1_Witness ==
    /\ Decoded
    /\ 0 < pos /\ pos < Len(response.body)
    /\ sink # <<>>

(***************************************************************************)
(* C2 as stated: the text parts reported are the text fragments of the     *)
(* events before the sentinel, one part per event, in stream order.        *)
(***************************************************************************)
C2_OnePartPerEvent == Decoded => sink = fragmentParts(beforeDone(response.events))

(***************************************************************************)
(* C2 amended: the text parts reported are, in stream order, String(content)*)
(* of the events before the sentinel whose delta content is truthy; events *)
(* with empty or absent content and the other lines report nothing.        *)
(***************************************************************************)
C2_TextPartsInOrder == Decoded => sink = contentParts(beforeDone(response.events))

\* the example of the spec: "Hel" then "lo" and no tool part
C2_Witness ==
    /\ Decoded
    /\ response.events = <<TextEvent("Hel"), TextEvent("lo"), DoneEvent>>
    /\ sink = <<LanguageModelTextPart("Hel"), LanguageModelTextPart("lo")>>

(***************************************************************************)
(* C3: once the reader has delivered the sentinel line, the decode has     *)
(* returned: no read is pending, and the parts reported are those of the   *)
(* events before the sentinel, none of a line after it.                    *)
(***************************************************************************)
C3_DoneStopsDecoding ==
    (IsStream /\ doneIndex(response.events) > 0 /\ pos >= doneEnd(response.events))
        => /\ pc = "idle"
           /\ result = "returned"
           /\ sink = contentParts(beforeDone(response.events))

\* an event follows the sentinel and arrived in the same chunk
C3_Witness ==
    /\ IsStream
    /\ doneIndex(response.events) > 0
    /\ doneIndex(response.events) < Len(response.events)
    /\ pos = Len(response.body)
    /\ result = "returned"

(***************************************************************************)
(* C4: a "data: " line that is not JSON is skipped: the decode does not    *)
(* fail at it, and the events before and after it have their parts         *)
(* reported in order.                                                      *)
(***************************************************************************)
HasMalformed == \E i \in 1..Len(response.events) : malformed(response.events[i])

C4_MalformedEventSkipped ==
    (IsStream /\ HasMalformed)
        => /\ result = "threw" => error = "read failed"
           /\ Decoded => sink = contentParts(beforeDone(response.events))
           /\ (result = "returned" /\ pos < doneEnd(response.events)) => token

\* a part was reported before and after the malformed line
C4_Witness ==
    /\ Decoded
    /\ HasMalformed
    /\ sink = <<LanguageModelTextPart("a"), LanguageModelTextPart("b")>>

(***************************************************************************)
(* Tool calls the events carry                                             *)
(***************************************************************************)
isTool(part) == part.type = "tool"

toolParts == {k \in 1..Len(sink) : isTool(sink[k])}

\* the tool-call deltas of index i, in stream order
RECURSIVE deltasOf(_, _)
deltasOf(events, i) ==
    IF events = <<>> THEN <<>>
    ELSE (IF Head(events).kind = "tool" /\ Head(events).index = i
          THEN <<Head(events)>> ELSE <<>>) \o deltasOf(Tail(events), i)

\* the first name that is not empty
RECURSIVE nameOf(_)
nameOf(deltas) ==
    IF deltas = <<>> THEN ""
    ELSE IF Head(deltas).name # "" THEN Head(deltas).name ELSE nameOf(Tail(deltas))

\* the argument fragments, concatenated
RECURSIVE argumentsOf(_)
argumentsOf(deltas) ==
    IF deltas = <<>> THEN "" ELSE Head(deltas).text \o argumentsOf(Tail(deltas))

\* the indices the events mark finished
finishedIndices(events) ==
    {events[k].index : k \in {j \in 1..Len(events) :
                                  events[j].kind = "tool" /\ events[j].finish}}

\* an opening marker, text after it, and then the closing marker
hasInlineCall(events) ==
    \E i, j \in 1..Len(events) :
        /\ i + 1 < j
        /\ events[i].kind = "text" /\ includes(events[i].text, OpenMarker)
        /\ events[j].kind = "text" /\ includes(events[j].text, CloseMarker)

(***************************************************************************)
(* C5: for every index the events mark finished, the decode reports        *)
(* exactly one tool-invocation part, with the accumulated name and the     *)
(* concatenated argument fragments as its input.                           *)
(***************************************************************************)
C5_ToolCallReconstructed ==
    Decoded =>
        \A i \in finishedIndices(beforeDone(response.events)) :
            LET deltas == deltasOf(beforeDone(response.events), i) IN
            Cardinality({k \in toolParts : /\ sink[k].name = nameOf(deltas)
                                           /\ sink[k].value = argumentsOf(deltas)}) = 1

(***************************************************************************)
(* C6: when the text fragments carry an opening marker, a call body and    *)
(* the closing marker, the decode reports a tool-invocation part.          *)
(***************************************************************************)
C6_InlineToolCallReported ==
    (Decoded /\ hasInlineCall(beforeDone(response.events))) => toolParts # {}

(***************************************************************************)
(* C7: the sink never holds two tool-invocation parts of the same call:    *)
(* no two with the same call id, no two with the same name and arguments.  *)
(***************************************************************************)
C7_NoDuplicateToolPart ==
    \A i, j \in toolParts :
        i < j => /\ sink[i].callId # sink[j].callId
                 /\ <<sink[i].name, sink[i].value>> # <<sink[j].name, sink[j].value>>

\* two finish signals for index 0 were decoded
C7_Witness ==
    /\ Decoded
    /\ 0 \in finishedIndices(response.events)
    /\ \E k \in 1..Len(response.events) : response.events[k].kind = "finish"
    /\ pos >= doneEnd(response.events)
    /\ Cardinality(toolParts) <= 1

(***************************************************************************)
(* C8: a successful response that is not an event stream and holds a JSON  *)
(* document is answered with exactly one text part, the text the document  *)
(* calls for, and no byte is read from a stream.                           *)
(***************************************************************************)
IsDocument == response.ok /\ ~includes(response.contentType, EventStream)

C8_NonStreamingOnePart ==
    (IsDocument /\ response.expect # NoValue)
        => /\ pos = 0
           /\ pc = "json" => sink = <<>>
           /\ pc = "idle" => /\ result = "returned"
                             /\ sink = <<LanguageModelTextPart(response.expect)>>

\* the example of the spec: one text part "hi"
C8_Witness ==
    /\ IsDocument
    /\ pc = "idle"
    /\ result = "returned"
    /\ sink = <<LanguageModelTextPart("hi")>>

(***************************************************************************)
(* C9: when cancellation is already requested at the point where the       *)
(* decoder would start a read (after the response arrived, or after a      *)
(* chunk was processed), it starts none: it returns normally and the parts *)
(* reported so far stay in the sink.                                       *)
(***************************************************************************)
C9_CancellationPolledBeforeRead ==
    [][ (token /\ (\/ pc = "fetch" /\ IsStream'
                   \/ pc = "read" /\ pos' > pos))
            => /\ pc' = "idle"
               /\ result' = "returned"
               /\ Len(sink') >= Len(sink)
               /\ SubSeq(sink', 1, Len(sink)) = sink ]_vars

\* cancelled during a read, the decoder returned before the sentinel and the
\* end of the body, keeping the parts it had reported
C9_Witness ==
    /\ IsStream
    /\ cancelMark.at = "read"
    /\ pc = "idle"
    /\ result = "returned"
    /\ pos < Len(response.body)
    /\ pos < doneEnd(response.events)
    /\ sink # <<>>

(***************************************************************************)
(* C10: no part is reported to the sink after cancellation was requested   *)
(* while the call was suspended in the network call or in a stream read.   *)
(***************************************************************************)
C10_NoPartAfterCancellation ==
    cancelMark.at \in {"fetch", "read"} => Len(sink) = cancelMark.len

(***************************************************************************)
(* Two response calls on the one provider instance.  Each call is made     *)
(* once, at any time: after the other has ended, or while the other is     *)
(* suspended at one of its awaits.  The calls share the secret storage and *)
(* the fields of the instance; the arguments, the response, the reader,    *)
(* the decoder and the sink belong to the call, and buffer to the          *)
(* activation of processStreamingResponse.                                 *)
(***************************************************************************)
\* the chunk a read of these calls delivers, unless it delivers the rest of
\* the body
TurnChunk == 40

TurnResponses ==
    { StreamResponse(EventStream, <<TextEvent("a"), TextEvent("b"), DoneEvent>>, ""),
      StreamResponse(EventStream, <<TextEvent("c")>>, eventLine(TextEvent("lost"))),
      DocumentResponse(TRUE, "application/json",
                       "{\"choices\":[{\"message\":{\"content\":\"hi\"}}]}", "hi"),
      DocumentResponse(FALSE, EventStream, "upstream down", NoValue) }

other(c) == CHOOSE d \in Calls : d # c

\* the turn state as an earlier turn that emitted text and met an inline tool
\* call would leave it
staleTurnState ==
    [toolCallBuffers |-> <<>>, completedToolCallIndices |-> {},
     hasEmittedAssistantText |-> TRUE, emittedBeginToolCallsHint |-> FALSE,
     textToolParserBuffer |-> OpenMarker, textToolActive |-> NoValue,
     emittedTextToolCallKeys |-> {}, emittedTextToolCallIds |-> {}]

\* the values the entry of the response call gives the fields
freshTurnState ==
    [toolCallBuffers |-> <<>>, completedToolCallIndices |-> {},
     hasEmittedAssistantText |-> FALSE, emittedBeginToolCallsHint |-> FALSE,
     textToolParserBuffer |-> "", textToolActive |-> NoValue,
     emittedTextToolCallKeys |-> {}, emittedTextToolCallIds |-> {}]

\* frame with buffer held on the instance: one for all activations
frameOfInstance(c) == 1

\* the activation of processStreamingResponse that call c makes
frame(c) == c

TurnReturn(t) == [t EXCEPT !.pc = "ended", !.result = "returned"]

TurnThrow(t, msg) == [t EXCEPT !.pc = "ended", !.result = "threw", !.error = msg]

TurnLoop(t) == IF loopCondition(t.token) THEN [t EXCEPT !.pc = "read"] ELSE TurnReturn(t)

\* entry of call c: reset the turn state and ask for the configuration
TurnCall(c) ==
    /\ turns[c].pc = "new"
    /\ \E valid \in BOOLEAN, cancelled \in BOOLEAN :
          turns' = [turns EXCEPT ![c] =
                       [NewTurn EXCEPT !.pc = "config", !.valid = valid,
                                       !.token = cancelled,
                                       !.entered = IF turns[other(c)].pc = "new"
                                                   THEN "first"
                                                   ELSE IF turns[other(c)].pc = "ended"
                                                   THEN "after" ELSE "during"]]
    /\ toolCallBuffers' = freshTurnState.toolCallBuffers
    /\ completedToolCallIndices' = freshTurnState.completedToolCallIndices
    /\ hasEmittedAssistantText' = freshTurnState.hasEmittedAssistantText
    /\ emittedBeginToolCallsHint' = freshTurnState.emittedBeginToolCallsHint
    /\ textToolParserBuffer' = freshTurnState.textToolParserBuffer
    /\ textToolActive' = freshTurnState.textToolActive
    /\ emittedTextToolCallKeys' = freshTurnState.emittedTextToolCallKeys
    /\ emittedTextToolCallIds' = freshTurnState.emittedTextToolCallIds
    /\ UNCHANGED <<secrets, frames, turn, request, discovery>>

\* ensureConfig(true) resolves for call c; validateRequest; the POST is issued
TurnConfigured(c) ==
    /\ turns[c].pc = "config"
    /\ LET t == turns[c]
           config == ensureConfig(TRUE, secrets, [baseUrl |-> NoValue, apiKey |-> NoValue])
       IN  /\ secrets' = config.store
           /\ turns' = [turns EXCEPT ![c] =
                           IF ~config.configured
                           THEN TurnThrow(t, "LiteLLM not configured")
                           ELSE IF ~t.valid
                           THEN TurnThrow(t, "invalid request")
                           ELSE [t EXCEPT !.pc = "fetch", !.requests = @ + 1]]
    /\ UNCHANGED <<fields, frames, turn, request, discovery>>

\* the fetch of call c rejects
TurnFetchFail(c) ==
    /\ turns[c].pc = "fetch"
    /\ turns' = [turns EXCEPT ![c] = TurnThrow(@, "fetch failed")]
    /\ UNCHANGED <<secrets, fields, frames, turn, request, discovery>>

\* the fetch of call c resolves with a response
TurnFetched(c) ==
    /\ turns[c].pc = "fetch"
    /\ \E r \in TurnResponses :
          LET t == [turns[c] EXCEPT !.response = r]
              streams == r.ok /\ includes(r.contentType, "text/event-stream") /\ r.hasBody
          IN  /\ turns' = [turns EXCEPT ![c] =
                              IF ~r.ok THEN [t EXCEPT !.pc = "text"]
                              ELSE IF ~includes(r.contentType, "text/event-stream")
                              THEN [t EXCEPT !.pc = "json"]
                              ELSE IF ~r.hasBody THEN TurnThrow(t, "No response body")
                              ELSE TurnLoop(t)]
              /\ frames' = IF streams THEN [frames EXCEPT ![frame(c)] = ""] ELSE frames
    /\ UNCHANGED <<secrets, fields, turn, request, discovery>>

\* response.text() of call c resolves
TurnErrorBody(c) ==
    /\ turns[c].pc = "text"
    /\ turns' = [turns EXCEPT ![c] =
                    TurnThrow(@, decode("", turns[c].response.body, FALSE).text)]
    /\ UNCHANGED <<secrets, fields, frames, turn, request, discovery>>

\* response.json() of call c resolves or rejects
TurnJsonBody(c) ==
    /\ turns[c].pc = "json"
    /\ LET t == turns[c]
           json == JSONparse(decode("", t.response.body, FALSE).text)
       IN  turns' = [turns EXCEPT ![c] =
                        IF ~json.ok THEN TurnThrow(t, "Unexpected token")
                        ELSE TurnReturn([t EXCEPT !.sink =
                                 Append(@, LanguageModelTextPart(documentText(json.val)))])]
    /\ UNCHANGED <<secrets, fields, frames, turn, request, discovery>>

\* reader.read() of call c resolves with a chunk of n bytes: TurnChunk bytes, or
\* all the bytes that remain
TurnReadChunk(c) ==
    /\ turns[c].pc = "read"
    /\ LET t == turns[c] IN
       \E n \in {Min(TurnChunk, Len(t.response.body) - t.pos),
                 Len(t.response.body) - t.pos} \ {0} :
          LET value == substring(t.response.body, t.pos + 1, t.pos + n)
              d == decodeChunk(t.decoderPending, value)
              lines == split(frames[frame(c)] \o d.text)
              r == forLines(popped(lines), 1)
              u == [t EXCEPT !.pos = @ + n, !.decoderPending = d.pending,
                             !.sink = @ \o r.parts]
          IN  /\ frames' = [frames EXCEPT ![frame(c)] = pop(lines)]
              /\ turns' = [turns EXCEPT ![c] = IF r.done THEN TurnReturn(u) ELSE TurnLoop(u)]
    /\ UNCHANGED <<secrets, fields, turn, request, discovery>>

\* reader.read() of call c resolves with done
TurnReadDone(c) ==
    /\ turns[c].pc = "read"
    /\ turns[c].pos = Len(turns[c].response.body)
    /\ turns' = [turns EXCEPT ![c] = TurnReturn(@)]
    /\ UNCHANGED <<secrets, fields, frames, turn, request, discovery>>

\* reader.read() of call c rejects
TurnReadFail(c) ==
    /\ turns[c].pc = "read"
    /\ turns' = [turns EXCEPT ![c] = TurnThrow(@, "read failed")]
    /\ UNCHANGED <<secrets, fields, frames, turn, request, discovery>>

\* the host requests the cancellation of call c
TurnCancel(c) ==
    /\ turns[c].pc \notin {"new", "ended"}
    /\ ~turns[c].token
    /\ turns' = [turns EXCEPT ![c].token = TRUE]
    /\ UNCHANGED <<secrets, fields, frames, turn, request, discovery>>

NextTurns ==
    \E c \in Calls :
        \/ TurnCall(c)
        \/ TurnConfigured(c)
        \/ TurnFetchFail(c)
        \/ TurnFetched(c)
        \/ TurnErrorBody(c)
        \/ TurnJsonBody(c)
        \/ TurnReadChunk(c)
        \/ TurnReadDone(c)
        \/ TurnReadFail(c)
        \/ TurnCancel(c)

SpecTurns == Init /\ [][NextTurns]_vars

\* what call t reports when it is the only call made on the instance: of a
\* stream, the parts of the complete lines among the bytes delivered to it; of
\* a document, its text
ownParts(t) ==
    IF ~t.response.ok THEN <<>>
    ELSE IF ~includes(t.response.contentType, EventStream)
    THEN IF t.result = "returned"
         THEN <<LanguageModelTextPart(
                    documentText(JSONparse(decode("", t.response.body, FALSE).text).val))>>
         ELSE <<>>
    ELSE singleRead(substring(t.response.body, 1, t.pos))

\* the carry-over of the bytes delivered to call t
ownBuffer(t) == pop(split(decodeChunk("", substring(t.response.body, 1, t.pos)).text))

(***************************************************************************)
(* C11: for a call made after the other call has ended, however that one   *)
(* ended: the turn-state fields hold their initial values from its entry   *)
(* on, its line buffer starts from the bytes of its own response, and the  *)
(* parts in its sink are those of its own response.                        *)
(***************************************************************************)
C11_NoCrossTurnLeakage ==
    \A c \in Calls :
        turns[c].entered = "after" =>
            /\ <<toolCallBuffers, completedToolCallIndices, emittedTextToolCallKeys,
                 emittedTextToolCallIds>> = <<<<>>, {}, {}, {}>>
            /\ ~hasEmittedAssistantText /\ ~emittedBeginToolCallsHint
            /\ textToolParserBuffer = "" /\ textToolActive = NoValue
            /\ turns[c].pc = "read" => frames[c] = ownBuffer(turns[c])
            /\ turns[c].sink = ownParts(turns[c])

\* the earlier call was cancelled in the middle of a line and left a carry-over;
\* the later call decoded its stream to the sentinel
C11_Witness ==
    \E c \in Calls :
        /\ turns[c].entered = "after"
        /\ turns[other(c)].token /\ turns[other(c)].result = "returned"
        /\ frames[other(c)] # ""
        /\ turns[c].pc = "ended" /\ turns[c].result = "returned"
        /\ turns[c].sink = <<LanguageModelTextPart("a"), LanguageModelTextPart("b")>>

(***************************************************************************)
(* C12: a POST has been issued only if the secret storage gave a base URL  *)
(* and validateRequest accepted the messages; a call that found no base    *)
(* URL or whose messages were rejected has failed, with no POST issued and *)
(* no part in the sink.                                                    *)
(***************************************************************************)
C12_PreflightBeforePost ==
    /\ requests > 0 => (~falsy(secrets.baseUrl) /\ messagesValid)
    /\ pc \in {"fetch", "text", "json", "read"} => requests > 0
    /\ (pc = "idle" /\ result # "none" /\ (falsy(secrets.baseUrl) \/ ~messagesValid))
           => /\ result = "threw"
              /\ error = (IF falsy(secrets.baseUrl) THEN "LiteLLM not configured"
                                                   ELSE "invalid request")
              /\ requests = 0
              /\ sink = <<>>

\* a base URL was found and the messages were rejected: the call has failed
C12_Witness ==
    /\ pc = "idle"
    /\ result = "threw"
    /\ ~falsy(secrets.baseUrl)
    /\ ~messagesValid
    /\ requests = 0

(***************************************************************************)
(* C13: a call issues at most one POST.  A response with a non-success     *)
(* status makes the call fail with the bytes of the body as the message of *)
(* the error and nothing in the sink.  A rejected read makes the call fail *)
(* with its one POST issued, and the sink holds the parts of the lines     *)
(* delivered before the failure, each once.                                *)
(***************************************************************************)
C13_SingleFailureNoRetry ==
    /\ requests <= 1
    /\ (response # NoResponse /\ ~response.ok)
           => /\ sink = <<>>
              /\ pc \in {"text", "idle"}
              /\ pc = "idle" => (result = "threw" /\ encode(error) = response.body)
    /\ (result = "threw" /\ error = "read failed")
           => /\ pc = "idle"
              /\ requests = 1
              /\ sink = singleRead(substring(response.body, 1, pos))

\* a read was rejected after parts had been reported
C13_Witness ==
    /\ result = "threw"
    /\ error = "read failed"
    /\ pos > 0
    /\ sink # <<>>

(***************************************************************************)
(* The request body of a response call: stream, max_tokens and temperature *)
(* for the options and the model the host passes.  A number the caller may *)
(* leave out is a JSON value, Undefined when it is left out; temperatures  *)
(* are counted in tenths.                                                  *)
(***************************************************************************)
RequestedTokens == {Undefined} \cup {JNum(n) : n \in {0, 1, 1000, 4095, 4096, 4097, 16000, 32000}}
Temperatures == {Undefined, JNum(0), JNum(10)}
OutputLimits == {1, 1000, 4096, 8192, 16000}

\* requestBody, without the model id, the messages and the tools
buildRequestBody(opts, limit) ==
    [stream |-> TRUE,
     max_tokens |-> Min(IF truthy(opts.max_tokens) THEN opts.max_tokens.n ELSE 4096, limit),
     temperature |-> IF ~nullish(opts.temperature) THEN opts.temperature.n ELSE 7]

\* the body is built for the options and the model of a call
BuildRequest ==
    /\ \E r \in RequestedTokens, t \in Temperatures, m \in OutputLimits :
          /\ modelOptions' = [max_tokens |-> r, temperature |-> t]
          /\ maxOutputTokens' = m
          /\ requestBody' = buildRequestBody([max_tokens |-> r, temperature |-> t], m)
    /\ UNCHANGED <<secrets, fields, turn, overlapped, discovery>>

NextRequest == BuildRequest

SpecRequest == Init /\ [][NextRequest]_vars

(***************************************************************************)
(* C14: the max_tokens of the request body is the smaller of the model's   *)
(* output limit and the requested value, 4096 standing in for the value    *)
(* only when none was requested.                                           *)
(***************************************************************************)
C14_MaxTokensClamped ==
    requestBody.stream =>
        requestBody.max_tokens =
            Min(IF modelOptions.max_tokens.t = "undefined" THEN 4096
                ELSE modelOptions.max_tokens.n, maxOutputTokens)

(***************************************************************************)
(* prepareLanguageModelChatInformation: the configuration is resolved for  *)
(* options.silent, showing the input boxes when it is false, and the model *)
(* catalogue is fetched.  The call is made any number of times on the      *)
(* instance, so a later call finds what an earlier one persisted.          *)
(***************************************************************************)
\* what the user does with the two input boxes: dismiss (NoValue), accept
\* empty, or type a value
Typed == [baseUrl : {NoValue, "", "http://llm"}, apiKey : {NoValue, "", "sk-1"}]

\* the answers of GET /v1/models: status, and the ids of data (parsed.data ?? [])
ModelResponses ==
    { [ok |-> TRUE, data |-> <<>>, text |-> "{}"],
      [ok |-> TRUE, data |-> <<"m1">>, text |-> "{\"data\":[{\"id\":\"m1\"}]}"],
      [ok |-> TRUE, data |-> <<"m1", "m2">>,
       text |-> "{\"data\":[{\"id\":\"m1\"},{\"id\":\"m2\"}]}"],
      [ok |-> FALSE, data |-> <<>>, text |-> "bad key"] }

\* entry: ensureConfig(options.silent); without a configuration the call
\* returns no model
PrepareInformation ==
    /\ infoPc = "idle"
    /\ \E s \in BOOLEAN, a \in Typed :
          LET c == ensureConfig(s, secrets, a) IN
          /\ optionsSilent' = s
          /\ typed' = a
          /\ secretsBefore' = secrets
          /\ secrets' = c.store
          /\ prompts' = c.prompts
          /\ resolved' = IF c.configured
                         THEN [defined |-> TRUE, baseUrl |-> c.baseUrl, apiKey |-> c.apiKey]
                         ELSE NoConfig
          /\ IF c.configured
             THEN /\ infoPc' = "models"
                  /\ infos' = [result |-> "none", models |-> <<>>, error |-> ""]
             ELSE /\ infoPc' = "idle"
                  /\ infos' = [result |-> "returned", models |-> <<>>, error |-> ""]
    /\ UNCHANGED <<fields, chatEndpoints, turn, overlapped, request>>

\* fetchModels resolves: the models become the chat endpoints, or the body of
\* a response with a non-success status is thrown
ModelsFetched ==
    /\ infoPc = "models"
    /\ infoPc' = "idle"
    /\ \E r \in ModelResponses :
          IF ~r.ok
          THEN /\ infos' = [result |-> "threw", models |-> <<>>, error |-> r.text]
               /\ UNCHANGED chatEndpoints
          ELSE /\ infos' = [result |-> "returned", models |-> r.data, error |-> ""]
               /\ chatEndpoints' = [i \in 1..Len(r.data) |->
                                       [model |-> r.data[i],
                                        modelMaxPromptTokens |-> 128000]]
    /\ UNCHANGED <<secrets, fields, optionsSilent, typed, secretsBefore, prompts, resolved,
                   turn, overlapped, request>>

\* the fetch of fetchModels rejects
ModelsFailed ==
    /\ infoPc = "models"
    /\ infoPc' = "idle"
    /\ infos' = [result |-> "threw", models |-> <<>>, error |-> "fetch failed"]
    /\ UNCHANGED <<secrets, fields, chatEndpoints, optionsSilent, typed, secretsBefore,
                   prompts, resolved, turn, overlapped, request>>

NextConfig ==
    \/ PrepareInformation
    \/ ModelsFetched
    \/ ModelsFailed

SpecConfig == Init /\ [][NextConfig]_vars

\* ensureConfig has been called
Resolution == infoPc = "models" \/ infos.result # "none"

(***************************************************************************)
(* C15: a silent resolution shows no input box and leaves the secret       *)
(* storage as it was; an input box is shown, and an answer stored, only    *)
(* for a secret that is missing and in an interactive call, which asks for *)
(* each missing secret and stores each answer that is not empty; and the   *)
(* resolution gives no configuration exactly when the base URL is missing  *)
(* from the storage and, if asked for, from the answer.                    *)
(***************************************************************************)
C15_SilentNeverPrompts ==
    LET missingUrl == secretsBefore.baseUrl \in {NoValue, ""}
        missingKey == secretsBefore.apiKey \in {NoValue, ""}
        askedUrl == missingUrl /\ ~optionsSilent
        askedKey == missingKey /\ ~optionsSilent
        available == IF askedUrl THEN typed.baseUrl ELSE secretsBefore.baseUrl
    IN  Resolution =>
            /\ optionsSilent => (prompts = 0 /\ secrets = secretsBefore)
            /\ prompts = (IF askedUrl THEN 1 ELSE 0) + (IF askedKey THEN 1 ELSE 0)
            /\ secrets.baseUrl # secretsBefore.baseUrl
                   => (askedUrl /\ secrets.baseUrl = typed.baseUrl)
            /\ secrets.apiKey # secretsBefore.apiKey
                   => (askedKey /\ secrets.apiKey = typed.apiKey)
            /\ (askedUrl /\ typed.baseUrl \notin {NoValue, ""})
                   => secrets.baseUrl = typed.baseUrl
            /\ (askedKey /\ typed.apiKey \notin {NoValue, ""})
                   => secrets.apiKey = typed.apiKey
            /\ resolved.defined <=> available \notin {NoValue, ""}
            /\ (~resolved.defined) => (infoPc = "idle" /\ infos.result = "returned"
                                       /\ infos.models = <<>>)

\* a silent call on a storage in which an interactive call stored the base URL
\* and no key: nothing is asked, and the configuration has an empty key
C15_Witness ==
    /\ Resolution
    /\ optionsSilent
    /\ secretsBefore.baseUrl = "http://llm"
    /\ secretsBefore.apiKey = NoValue
    /\ prompts = 0
    /\ resolved = [defined |-> TRUE, baseUrl |-> "http://llm", apiKey |-> ""]

(***************************************************************************)
(* The text delivered so far, cut at its last newline                      *)
(***************************************************************************)
\* the text decoded from the bytes the reader has delivered
deliveredText == decodeChunk("", substring(response.body, 1, pos)).text

\* index of the last newline of s, 0 if there is none
lastNewline(s) ==
    LET idx == {i \in 1..Len(s) : SubSeq(s, i, i) = "\n"}
    IN  IF idx = {} THEN 0 ELSE CHOOSE i \in idx : \A j \in idx : j <= i

\* the lines of s that a newline terminates
terminatedLines(s) ==
    IF lastNewline(s) = 0 THEN <<>> ELSE split(substring(s, 1, lastNewline(s) - 1))

\* what follows the last newline of s
fragment(s) == substring(s, lastNewline(s) + 1, Len(s))

(***************************************************************************)
(* C16: the parts in the sink are those of the lines of the delivered text *)
(* that a newline terminates, so no line is parsed before its newline has  *)
(* arrived; between reads buffer is what follows the last newline of the   *)
(* delivered text, and holds no newline.                                   *)
(***************************************************************************)
C16_LineCompleteness ==
    IsStream =>
        /\ sink = forLines(terminatedLines(deliveredText), 1).parts
        /\ buffer = fragment(deliveredText)
        /\ \A i \in 1..Len(buffer) : SubSeq(buffer, i, i) # "\n"

\* between two reads, after a part was reported, buffer holds the beginning of
\* an event line
C16_Witness ==
    /\ IsStream
    /\ pc = "read"
    /\ sink # <<>>
    /\ Len(buffer) > Len("data: ")
    /\ startsWith(buffer, "data: ")

(***************************************************************************)
(* The response call with a reader that answers: a read that is pending    *)
(* eventually resolves, with the next chunk while bytes remain and with    *)
(* done after the last one (unless it is rejected first).                  *)
(***************************************************************************)
\* weak fairness of ReadChunk, written out: ReadChunk is enabled exactly while a
\* read is pending and bytes remain, and its steps are the steps that advance pos
ReaderDelivers ==
    []<>(~(pc = "read" /\ pos < Len(response.body))) \/ []<><<pos' > pos>>_pos

SpecLive == Spec /\ ReaderDelivers /\ WF_vars(ReadDone)

\* the stream has no sentinel and its decode ended without a rejected read
EndedWithoutSentinel ==
    /\ IsStream
    /\ doneIndex(response.events) = 0
    /\ pc = "idle"
    /\ error # "read failed"

(***************************************************************************)
(* C17: a decode that ends on a stream without sentinel returns normally;  *)
(* when the reader signalled completion the sink holds the parts of all    *)
(* events of the stream, and nothing of an unterminated last line; and     *)
(* with a reader that answers, a decode that is reading eventually ends.   *)
(***************************************************************************)
C17_EndOfStreamReturns ==
    /\ [](EndedWithoutSentinel
              => /\ result = "returned"
                 /\ (pos = Len(response.body) /\ ~token)
                        => sink = contentParts(response.events))
    /\ (pc = "read") ~> (pc = "idle")

\* the stream ended after an event and an unterminated line, without sentinel
C17_Witness ==
    /\ EndedWithoutSentinel
    /\ ~token
    /\ pos = Len(response.body)
    /\ buffer # ""
    /\ sink = <<LanguageModelTextPart("a")>>

(***************************************************************************)
(* C18: when a call is made while the other is suspended at one of its     *)
(* awaits, each of the two has in its sink the parts it reports when run   *)
(* alone on the bytes delivered to it, and between its reads its buffer is *)
(* the carry-over of those bytes.                                          *)
(***************************************************************************)
C18_OverlappingTurnsIndependent ==
    (\E c \in Calls : turns[c].entered = "during")
        => \A c \in Calls :
              /\ turns[c].sink = ownParts(turns[c])
              /\ turns[c].pc = "read" => frames[c] = ownBuffer(turns[c])

\* both calls have decoded a stream to its sentinel, in several reads each, the
\* one entered while the other was under way
C18_Witness ==
    /\ \E c \in Calls : turns[c].entered = "during"
    /\ \A c \in Calls :
          /\ turns[c].pc = "ended" /\ turns[c].result = "returned" /\ ~turns[c].token
          /\ turns[c].pos > TurnChunk
          /\ turns[c].sink = <<LanguageModelTextPart("a"), LanguageModelTextPart("b")>>

(***************************************************************************)
(* C19: a step taken while a read is pending and cancellation is requested *)
(* ends the decoder, so no read follows the one that was pending at the    *)
(* request.  While that read is pending nothing has been reported since    *)
(* the request, and when it has resolved the sink holds the parts of the   *)
(* lines that the bytes delivered up to and by this read completed.        *)
(***************************************************************************)
C19_BoundedWorkAfterCancellation ==
    /\ [][(token /\ pc = "read") => pc' = "idle"]_vars
    /\ [](cancelMark.at = "read"
              => /\ token
                 /\ pc \in {"read", "idle"}
                 /\ pc = "read" => Len(sink) = cancelMark.len
                 /\ Len(sink) >= cancelMark.len
                 /\ sink = forLines(terminatedLines(deliveredText), 1).parts)

\* the read pending at the request delivered a chunk that completed a line; its
\* part was reported and the decoder returned before the end of the body
C19_Witness ==
    /\ cancelMark.at = "read"
    /\ pc = "idle"
    /\ result = "returned"
    /\ Len(sink) > cancelMark.len
    /\ pos < Len(response.body)
    /\ pos < doneEnd(response.events)

(***************************************************************************)
(* C20: at every point of a call, hasEmittedAssistantText is true exactly  *)
(* when the sink holds a text part.                                        *)
(***************************************************************************)
C20_FlagTracksEmission ==
    hasEmittedAssistantText <=> (\E k \in 1..Len(sink) : sink[k].type = "text")
====
